---- MODULE Spec2Model ----
(***************************************************************************)
(* Model of numba.np.ufunc.gufunc.GUFunc: the call-time specialization of  *)
(* a generalized universal function.  One GUFunc instance is the state;    *)
(* every public operation and the typing hook is one action.               *)
(***************************************************************************)
EXTENDS Integers, Sequences, FiniteSets, TLC

VARIABLES signature,   \* gufunc_builder.signature, the dimension signature text
          is_dynamic,  \* GUFunc._is_dynamic
          frozen,      \* GUFunc._frozen
          sigs,        \* gufunc_builder._sigs, call signatures in insertion order
          overloads,   \* _dispatcher.overloads, keys in insertion order
          ufunc,       \* GUFunc.ufunc: the loops (ufunc.types) of the aggregate
          last,        \* observation of the operation that produced this state
          threads      \* per thread: the position inside a concurrent __call__

vars == <<signature, is_dynamic, frozen, sigs, overloads, ufunc, last,
          threads>>

(***************************************************************************)
(* Bounds of the model.                                                    *)
(***************************************************************************)
MaxSigs == 2        \* registry entries explored
ExtraArgs == 1      \* call sites pass up to nin + 1 + ExtraArgs arguments

(***************************************************************************)
(* Types.  A scalar type is [dtype, ndim = 0]; types.Array(dtype, ndim,    *)
(* 'A') is [dtype, ndim >= 1].  Element-wise types are dtype names.  A     *)
(* call signature is [return_type, args], args a tuple of types.           *)
(***************************************************************************)
Dtypes == {"int64", "float64"}

Scalar(t) == [dtype |-> t, ndim |-> 0]
Array(t, n) == [dtype |-> t, ndim |-> n]
IsArray(ty) == ty.ndim > 0

\* sigparse.parse_signature: (inputs, outputs) as tuples of dimension names
parse_signature(s) ==
  CASE s = "(n,m),(m)->(n)" ->
         [ins |-> << <<"n", "m">>, <<"m">> >>, outs |-> << <<"n">> >>]
    [] s = "()->()" ->
         [ins |-> << <<>> >>, outs |-> << <<>> >>]
    [] s = "(n)->(n)" ->
         [ins |-> << <<"n">> >>, outs |-> << <<"n">> >>]

\* GUFunc.nin / GUFunc.nout: operand counts of the aggregate callable
nin == Len(parse_signature(signature).ins)
nout == Len(parse_signature(signature).outs)

\* The host's casting rules used by the loop matcher.
Kind(t) == IF t = "int64" THEN 1 ELSE 2
CanCastSafe(from, to) == Kind(from) <= Kind(to)
CanCastSameKind(from, to) == Kind(from) <= Kind(to)

\* GUFunc._get_ewise_dtypes: an array gives its dtype, any other type itself
\* (a scalar type is named by its dtype)
_get_ewise_dtypes(args) ==
  [i \in 1..Len(args) |-> IF IsArray(args[i]) THEN args[i].dtype
                          ELSE args[i].dtype]

Min(a, b) == IF a <= b THEN a ELSE b

\* Is loop a viable candidate for arg_types (inputs, then explicit outputs)?
\* The operands are paired with zip, so surplus outputs are not compared.
LoopViable(loop, arg_types) ==
  /\ \A i \in 1..nin : CanCastSafe(arg_types[i], loop[i])
  /\ \A i \in (nin + 1)..Min(Len(arg_types), Len(loop)) :
       CanCastSameKind(loop[i], arg_types[i])

\* numpy_support.ufunc_find_matching_loop: index of the first viable loop of
\* u (0 stands for None).  Requires Len(arg_types) >= nin.
ufunc_find_matching_loop(u, arg_types) ==
  LET viable == {i \in 1..Len(u) : LoopViable(u[i], arg_types)}
  IN IF viable = {} THEN 0
     ELSE CHOOSE i \in viable : \A j \in viable : i <= j

\* Variant: the implicit-output call shape is let through
_num_args_match_atleast(args) ==
  Len(args) >= Len(parse_signature(signature).ins)

\* GUFunc._num_args_match
_num_args_match(args) == Len(args) = Len(parse_signature(signature).ins) + 1

\* Variant: the output rank is the output dimension tuple's length as it is
_get_signature_rank0(args) ==
  LET parsed_sig == parse_signature(signature)
      ewise_types == _get_ewise_dtypes(args)
      l == [idx \in 1..Len(parsed_sig.ins) |->
              IF Len(parsed_sig.ins[idx]) = 0
              THEN Scalar(ewise_types[idx])
              ELSE Array(ewise_types[idx], Len(parsed_sig.ins[idx]))]
      retty == ewise_types[Len(ewise_types)]
  IN [return_type |-> "none",
      args |-> Append(l, Array(retty, Len(parsed_sig.outs[1])))]

\* GUFunc._get_signature: the call signature types.none(*l)
_get_signature(args) ==
  LET parsed_sig == parse_signature(signature)
      ewise_types == _get_ewise_dtypes(args)
      l == [idx \in 1..Len(parsed_sig.ins) |->
              IF Len(parsed_sig.ins[idx]) = 0
              THEN Scalar(ewise_types[idx])
              ELSE Array(ewise_types[idx], Len(parsed_sig.ins[idx]))]
      retty == ewise_types[Len(ewise_types)]
      ret_ndim == IF Len(parsed_sig.outs[1]) = 0 THEN 1
                  ELSE Len(parsed_sig.outs[1])
  IN [return_type |-> "none", args |-> Append(l, Array(retty, ret_ndim))]

\* The dtype numbers GUFuncBuilder.build registers for one call signature
LoopOf(fty) == [i \in 1..Len(fty.args) |-> fty.args[i].dtype]

Range(f) == {f[i] : i \in DOMAIN f}

\* The external JIT: does compiling the kernel for fty produce an artifact?
\* The kernel modelled combines inputs of one element type and stores the
\* result in the output; the JIT rejects inputs of different element types
\* and an output whose element type is narrower than the inputs'.
jit_compile(fty) ==
  \A i \in 1..(Len(fty.args) - 1) :
    /\ fty.args[i].dtype = fty.args[1].dtype
    /\ Kind(fty.args[i].dtype) <= Kind(fty.args[Len(fty.args)].dtype)

\* GUFuncBuilder.add: ask the JIT for fty, then store the result; b is
\* [sigs, overloads].
GUFuncBuilder_add(b, fty) ==
  IF jit_compile(fty)
  THEN [sigs |-> Append(b.sigs, fty),
        overloads |-> IF fty \in Range(b.overloads) THEN b.overloads
                      ELSE Append(b.overloads, fty),
        raised |-> FALSE]
  ELSE [sigs |-> b.sigs, overloads |-> b.overloads, raised |-> TRUE]

\* GUFuncBuilder.build_ufunc: one loop per registered signature, in order
GUFuncBuilder_build_ufunc(b) == [i \in 1..Len(b.sigs) |-> LoopOf(b.sigs[i])]

\* Variant: the signature is recorded before the JIT is asked
add_eager(b, fty) ==
  [sigs |-> Append(b.sigs, fty),
   overloads |-> IF fty \in Range(b.overloads) THEN b.overloads
                 ELSE Append(b.overloads, fty),
   raised |-> ~jit_compile(fty)]

\* Variant: the new signature takes the place of the latest entry
add_replace(b, fty) ==
  IF jit_compile(fty)
  THEN [sigs |-> IF b.sigs = <<>> THEN <<fty>>
                 ELSE [b.sigs EXCEPT ![Len(b.sigs)] = fty],
        overloads |-> IF b.overloads = <<>> THEN <<fty>>
                      ELSE [b.overloads EXCEPT ![Len(b.overloads)] = fty],
        raised |-> FALSE]
  ELSE [sigs |-> b.sigs, overloads |-> b.overloads, raised |-> TRUE]

\* GUFunc.add
add(b, fty) == GUFuncBuilder_add(b, fty)

\* GUFunc.build_ufunc
build_ufunc(b) == GUFuncBuilder_build_ufunc(b)

\* The aggregate callable invoked by the host: it runs when the argument
\* count is nin..nin+nout and one of its loops is viable.
ufunc_call(u, args, kwargs) ==
  LET all == args \o kwargs
  IN IF Len(all) < nin \/ Len(all) > nin + nout THEN "TypeError"
     ELSE IF ufunc_find_matching_loop(u, _get_ewise_dtypes(all)) = 0
          THEN "TypeError"
          ELSE "ok"

\* npydecl.Numpy_rules_ufunc._handle_inputs: rejects call shapes other than
\* nin or nin + nout operands, else yields the element-wise types
_handle_inputs_ok(argtys) == Len(argtys) >= nin /\ Len(argtys) <= nin + nout
_handle_inputs(argtys) == [i \in 1..Len(argtys) |-> argtys[i].dtype]

\* Variant: the query is compared as given, frozen or not
find_ewise_function_exact(fz, u, ovl, ewise_types) ==
  LET hits == {i \in 1..Len(ovl) : _get_ewise_dtypes(ovl[i].args) = ewise_types}
  IN IF hits = {} THEN 0
     ELSE CHOOSE i \in hits : \A j \in hits : i <= j

\* GUFunc.find_ewise_function: index into the overloads of the matching
\* signature, 0 for (None, None).  fz, u, ovl are the instance's _frozen,
\* ufunc loops and dispatcher overloads at the time of the lookup.
find_ewise_function(fz, u, ovl, ewise_types) ==
  LET loop == IF fz THEN ufunc_find_matching_loop(u, ewise_types) ELSE 0
      et == IF fz /\ loop # 0 THEN SubSeq(u[loop], 1, Len(ewise_types))
            ELSE ewise_types
      hits == {i \in 1..Len(ovl) : _get_ewise_dtypes(ovl[i].args) = et}
  IN IF fz /\ loop = 0 THEN 0
     ELSE IF hits = {} THEN 0
     ELSE CHOOSE i \in hits : \A j \in hits : i <= j

\* The value of a handler that returns None or raises
NoResult == [return_type |-> "", args |-> <<>>]

\* Outcome of a handler that returns or raises with the instance as it is;
\* the handlers below overwrite the fields they assign
Untouched(res) ==
  [signature |-> signature, is_dynamic |-> is_dynamic,
   sigs |-> sigs, overloads |-> overloads, ufunc |-> ufunc, frozen |-> frozen,
   res |-> res, ncomp |-> 0, nins |-> 0, rebuilt |-> FALSE, fast |-> FALSE,
   resolved |-> FALSE, dpos |-> 0, dkw |-> FALSE, found |-> 0,
   ret |-> NoResult]

\* GUFunc._type_me, no matching signature and not frozen: compile for the
\* element-wise types, then look the new entry up
TypeMeCompile(ewise_types) ==
  LET fnty == _get_signature([i \in 1..Len(ewise_types) |->
                                Scalar(ewise_types[i])])
      a == add([sigs |-> sigs, overloads |-> overloads], fnty)
      sig2 == find_ewise_function(frozen, ufunc, a.overloads, ewise_types)
  IN IF a.raised
     THEN [Untouched("CompilationError")
             EXCEPT !.sigs = a.sigs, !.overloads = a.overloads,
                    !.resolved = TRUE, !.ncomp = 1]
     ELSE [Untouched(IF sig2 # 0 THEN "ok" ELSE "AssertionError")
             EXCEPT !.sigs = a.sigs, !.overloads = a.overloads,
                    !.resolved = TRUE, !.ncomp = 1, !.nins = 1]

\* Variant: the frozen flag is not consulted before compiling
TypeMeMiss_nofreeze(ewise_types) == TypeMeCompile(ewise_types)

\* GUFunc._type_me, no matching signature: reject when frozen, else compile
TypeMeMiss(ewise_types) ==
  IF frozen THEN [Untouched("TypeError") EXCEPT !.resolved = TRUE]
  ELSE TypeMeCompile(ewise_types)

\* GUFunc._type_me
_type_me(argtys, kws) ==
  IF kws THEN Untouched("AssertionError")
  ELSE IF ~_handle_inputs_ok(argtys) THEN Untouched("TypingError")
  ELSE
    LET ewise_types == _handle_inputs(argtys)
        sig == find_ewise_function(frozen, ufunc, overloads, ewise_types)
        ret == [return_type |-> "none", args |-> argtys]
        o == TypeMeMiss(ewise_types)
    IN IF sig # 0
       THEN [Untouched("ok") EXCEPT !.resolved = TRUE, !.found = sig,
                                    !.ret = ret]
       ELSE IF o.res = "ok" THEN [o EXCEPT !.ret = ret] ELSE o

\* Variant: only a static function takes the fast path
FastPath_static == ~is_dynamic

\* GUFunc.__call__, first test: the paths that bypass resolution
FastPath == frozen \/ ~is_dynamic

\* Variant: every dynamic call compiles
NeedsCompile_always(u, ewise) == TRUE

\* Variant: only a loop with exactly the call's element types is reused
NeedsCompile_exact(u, ewise) == ewise \notin Range(u)

\* GUFunc.__call__, the test that decides between compiling and reusing
\* (self.ufunc is an object from construction on, so only the matcher counts)
NeedsCompile(u, ewise) == ~(ufunc_find_matching_loop(u, ewise) # 0)

\* GUFunc.__call__ after the arity check: resolve, then delegate
CallResolve(args) ==
  LET ewise == _get_ewise_dtypes(args)
  IN IF NeedsCompile(ufunc, ewise)
     THEN LET sig == _get_signature(args)
              a == add([sigs |-> sigs, overloads |-> overloads], sig)
              u == build_ufunc(a)
          IN IF a.raised
             THEN [Untouched("CompilationError")
                     EXCEPT !.sigs = a.sigs, !.overloads = a.overloads,
                            !.resolved = TRUE, !.ncomp = 1]
             ELSE [Untouched(ufunc_call(u, args, <<>>))
                     EXCEPT !.sigs = a.sigs, !.overloads = a.overloads,
                            !.ufunc = u, !.resolved = TRUE, !.ncomp = 1,
                            !.nins = 1, !.rebuilt = TRUE,
                            !.dpos = Len(args)]
     ELSE [Untouched(ufunc_call(ufunc, args, <<>>))
             EXCEPT !.resolved = TRUE, !.dpos = Len(args)]

\* Variant: a surplus of arguments is detected only after resolution
CallDynamic_late(args) ==
  IF Len(args) <= Len(parse_signature(signature).ins)
  THEN Untouched("ArityError")
  ELSE LET o == CallResolve(args)
       IN IF _num_args_match(args) THEN o ELSE [o EXCEPT !.res = "ArityError"]

\* GUFunc.__call__ on a dynamic, unfrozen instance: args already holds the
\* out keyword as its last element
CallDynamic(args) ==
  IF ~_num_args_match(args) THEN Untouched("ArityError")
  ELSE CallResolve(args)

\* Variant: the out keyword is left out of the dynamic path
__call___nokw(args, kwargs) ==
  IF FastPath
  THEN [Untouched(ufunc_call(ufunc, args, kwargs))
          EXCEPT !.fast = TRUE, !.dpos = Len(args), !.dkw = kwargs # <<>>]
  ELSE CallDynamic(args)

\* GUFunc.__call__; kwargs is <<>> or <<out>>
__call__(args, kwargs) ==
  IF FastPath
  THEN [Untouched(ufunc_call(ufunc, args, kwargs))
          EXCEPT !.fast = TRUE, !.dpos = Len(args), !.dkw = kwargs # <<>>]
  ELSE CallDynamic(args \o kwargs)

\* Variant: the registry size is not asserted
disable_compile_ok_always(b) == TRUE

\* GUFunc.disable_compile: the assertion on the registry size
disable_compile_ok(b) == Len(b.sigs) > 0

\* GUFunc.disable_compile
disable_compile ==
  IF ~disable_compile_ok([sigs |-> sigs, overloads |-> overloads])
  THEN Untouched("AssertionError")
  ELSE [Untouched("ok") EXCEPT !.frozen = TRUE]

\* Variant: the registered signatures are not serialized
_reduce_states_nosigs ==
  [signature |-> signature, is_dynamic |-> is_dynamic, typesigs |-> <<>>,
   frozen |-> frozen]

\* GUFunc._reduce_states
_reduce_states ==
  [signature |-> signature, is_dynamic |-> is_dynamic, typesigs |-> sigs,
   frozen |-> frozen]

\* The loop `for sig in typesigs: self.add(sig)` of _rebuild on the fresh
\* instance b, from the i-th signature on; it stops at the first failure
RECURSIVE AddAll(_, _, _)
AddAll(b, typesigs, i) ==
  IF i > Len(typesigs) THEN b
  ELSE LET a == add(b, typesigs[i])
       IN IF a.raised THEN a ELSE AddAll(a, typesigs, i + 1)

\* Variant: the rebuilt instance keeps the constructor's flag
_rebuild_frozen_reset(st) == FALSE

\* GUFunc._rebuild: the flag the rebuilt instance ends with
_rebuild_frozen(st) == st.frozen

\* GUFunc._rebuild applied to a reduced state
_rebuild(st) ==
  LET a == AddAll([sigs |-> <<>>, overloads |-> <<>>, raised |-> FALSE],
                  st.typesigs, 1)
  IN IF a.raised
     THEN [Untouched("CompilationError") EXCEPT !.ncomp = Len(a.sigs) + 1]
     ELSE [Untouched("ok")
             EXCEPT !.signature = st.signature, !.is_dynamic = st.is_dynamic,
                    !.sigs = a.sigs, !.overloads = a.overloads,
                    !.ufunc = build_ufunc(a), !.frozen = _rebuild_frozen(st),
                    !.ncomp = Len(st.typesigs), !.nins = Len(st.typesigs),
                    !.rebuilt = TRUE]

(***************************************************************************)
(* Inputs of the operations.                                               *)
(***************************************************************************)
\* Tuples of element types of length lo..hi
RECURSIVE TuplesOfLen(_)
TuplesOfLen(n) ==
  IF n = 0 THEN {<<>>}
  ELSE {Append(t, d) : t \in TuplesOfLen(n - 1), d \in Dtypes}

\* Element types of the call sites explored: every combination for the two
\* canonical call shapes (nin and nin + 1 operands), one combination for
\* each other operand count up to nin + 1 + ExtraArgs
CallTuples ==
  TuplesOfLen(nin) \cup TuplesOfLen(nin + 1) \cup
  {[i \in 1..n |-> "int64"] : n \in (0..(nin + 1 + ExtraArgs)) \ {nin, nin + 1}}

\* The argument (or argument type) a call site passes at position i for
\* element type t: an array of the operand's core rank, a scalar where the
\* core rank is zero; an output is always an array.
ArgAt(i, t) ==
  LET parsed_sig == parse_signature(signature)
      core == IF i <= Len(parsed_sig.ins) THEN Len(parsed_sig.ins[i])
              ELSE Len(parsed_sig.outs[1])
      rank == IF i > Len(parsed_sig.ins) /\ core = 0 THEN 1 ELSE core
  IN IF rank = 0 THEN Scalar(t) ELSE Array(t, rank)

ArgsFor(T) == [i \in 1..Len(T) |-> ArgAt(i, T[i])]

\* Call signatures a caller can hand to add()
Ftys == {_get_signature(ArgsFor(T)) : T \in TuplesOfLen(nin + 1)}

\* What the registry and the aggregate looked like to the operation
Seen(ew) == \E i \in 1..Len(sigs) : _get_ewise_dtypes(sigs[i].args) = ew
Matched(ew) == Len(ew) >= nin /\ ufunc_find_matching_loop(ufunc, ew) # 0

Observe(op, o, ew, npos, kw) ==
  [op |-> op, res |-> o.res, ewise |-> ew, npos |-> npos, kw |-> kw,
   ncomp |-> o.ncomp, nins |-> o.nins, rebuilt |-> o.rebuilt,
   fast |-> o.fast, resolved |-> o.resolved, dpos |-> o.dpos, dkw |-> o.dkw,
   seen |-> Seen(ew), matched |-> Matched(ew), wasfrozen |-> frozen,
   again |-> (op = "call" /\ last.op = "call" /\ last.res = "ok"
              /\ last.ewise = ew),
   found |-> o.found, ret |-> o.ret,
   prevadded |-> (last.op = op /\ last.ewise = ew /\ last.nins = 1),
   grew |-> /\ Len(o.sigs) >= Len(sigs)
            /\ SubSeq(o.sigs, 1, Len(sigs)) = sigs
            /\ Len(o.overloads) >= Len(overloads)
            /\ SubSeq(o.overloads, 1, Len(overloads)) = overloads,
   cfgchanged |-> (o.signature # signature \/ o.is_dynamic # is_dynamic),
   regchanged |-> (o.sigs # sigs \/ o.overloads # overloads),
   ufchanged |-> (o.ufunc # ufunc), frchanged |-> (o.frozen # frozen)]

Apply(o) ==
  /\ Len(o.sigs) <= MaxSigs
  /\ sigs' = o.sigs
  /\ overloads' = o.overloads
  /\ ufunc' = o.ufunc
  /\ frozen' = o.frozen
  /\ signature' = o.signature
  /\ is_dynamic' = o.is_dynamic
  /\ UNCHANGED threads

(***************************************************************************)
(* State after GUFunc.__init__ and the operations on one instance.         *)
(***************************************************************************)
\* The threads that may be inside __call__ at once, and a thread outside it
Threads == {1, 2}
Idle == [pc |-> "idle", args |-> <<>>, res |-> "", ncomp |-> 0, nins |-> 0]

\* The instances explored: GUFunc(py_func, signature, is_dynamic=...)
Configs == {<<"(n,m),(m)->(n)", TRUE>>, <<"()->()", TRUE>>,
            <<"()->()", FALSE>>, <<"(n)->(n)", FALSE>>}

Init ==
  /\ \E c \in Configs : signature = c[1] /\ is_dynamic = c[2]
  /\ frozen = FALSE
  /\ sigs = <<>>
  /\ overloads = <<>>
  /\ ufunc = <<>>
  /\ last = [op |-> "init", res |-> "ok", ewise |-> <<>>, npos |-> 0,
             kw |-> FALSE, ncomp |-> 0, nins |-> 0, rebuilt |-> TRUE,
             fast |-> FALSE, resolved |-> FALSE, dpos |-> 0, dkw |-> FALSE,
             seen |-> FALSE, matched |-> FALSE, wasfrozen |-> FALSE,
             again |-> FALSE, found |-> 0, ret |-> NoResult,
             prevadded |-> FALSE, grew |-> TRUE, cfgchanged |-> FALSE,
             regchanged |-> FALSE, ufchanged |-> FALSE, frchanged |-> FALSE]
  /\ threads = [t \in Threads |-> Idle]

\* gufunc(*args) and gufunc(*args, out=...)
Call ==
  \E T \in CallTuples, k \in 0..1 :
    /\ k <= Len(T)
    /\ LET all == ArgsFor(T)
           args == SubSeq(all, 1, Len(T) - k)
           kwargs == SubSeq(all, Len(T) - k + 1, Len(T))
       IN \E o \in {__call__(args, kwargs)} :
          /\ Apply(o)
          /\ last' = Observe("call", o, _get_ewise_dtypes(all), Len(args),
                             k = 1)

\* The typing hook installed by _install_type
TypeMe ==
  \E T \in CallTuples :
    LET argtys == ArgsFor(T)
    IN \E o \in {_type_me(argtys, FALSE)} :
       /\ Apply(o)
       /\ last' = Observe("type_me", o, _get_ewise_dtypes(argtys),
                          Len(argtys), FALSE)

\* The typing hook reached with keyword arguments
TypeMeKws ==
  \E T \in TuplesOfLen(nin) :
    LET argtys == ArgsFor(T)
    IN \E o \in {_type_me(argtys, TRUE)} :
       /\ Apply(o)
       /\ last' = Observe("type_me", o, _get_ewise_dtypes(argtys),
                          Len(argtys), TRUE)

\* gufunc.add(fty)
Add ==
  \E fty \in Ftys :
    LET a == add([sigs |-> sigs, overloads |-> overloads], fty)
        o == IF a.raised
             THEN [Untouched("CompilationError")
                     EXCEPT !.sigs = a.sigs, !.overloads = a.overloads,
                            !.ncomp = 1]
             ELSE [Untouched("ok") EXCEPT !.sigs = a.sigs,
                                          !.overloads = a.overloads,
                                          !.ncomp = 1, !.nins = 1]
    IN /\ Apply(o)
       /\ last' = Observe("add", o, _get_ewise_dtypes(fty.args), 1, FALSE)

\* gufunc.build_ufunc()
BuildUfunc ==
  LET o == [Untouched("ok")
              EXCEPT !.ufunc = build_ufunc([sigs |-> sigs,
                                            overloads |-> overloads]),
                     !.rebuilt = TRUE]
  IN /\ Apply(o)
     /\ last' = Observe("build_ufunc", o, <<>>, 0, FALSE)

\* gufunc.disable_compile()
DisableCompile ==
  LET o == disable_compile
  IN /\ Apply(o)
     /\ last' = Observe("disable_compile", o, <<>>, 0, FALSE)

\* Unpickling: GUFunc._rebuild(**gufunc._reduce_states())
Rebuild ==
  \E o \in {_rebuild(_reduce_states)} :
    /\ Apply(o)
    /\ last' = Observe("rebuild", o, <<>>, 0, FALSE)

Next == Call \/ TypeMe \/ TypeMeKws \/ Add \/ BuildUfunc \/ DisableCompile \/ Rebuild

Spec == Init /\ [][Next]_vars

\* Only direct calls and typing-path resolutions
NextResolve == Call \/ TypeMe

SpecResolve == Init /\ [][NextResolve]_vars

(***************************************************************************)
(* Two threads inside GUFunc.__call__ on one instance.  The method takes   *)
(* no lock, so the threads interleave between its statements: the test of  *)
(* line 350, add (352), build_ufunc (353) and the delegation (354).        *)
(***************************************************************************)
\* Lines 331-346: thread t enters __call__; args already holds the out
\* keyword as its last element
TBegin(t) ==
  /\ threads[t].pc = "idle"
  /\ \E T \in CallTuples :
       LET args == ArgsFor(T)
       IN threads' = [threads EXCEPT ![t] =
            IF FastPath THEN [@ EXCEPT !.pc = "delegate", !.args = args]
            ELSE IF ~_num_args_match(args)
                 THEN [@ EXCEPT !.pc = "done", !.args = args,
                                !.res = "ArityError"]
                 ELSE [@ EXCEPT !.pc = "check", !.args = args]]
  /\ UNCHANGED <<signature, is_dynamic, frozen, sigs, overloads, ufunc, last>>

\* Lines 349-350: the test that decides between compiling and reusing
TCheck(t) ==
  /\ threads[t].pc = "check"
  /\ threads' = [threads EXCEPT ![t].pc =
       IF NeedsCompile(ufunc, _get_ewise_dtypes(threads[t].args))
       THEN "add" ELSE "delegate"]
  /\ UNCHANGED <<signature, is_dynamic, frozen, sigs, overloads, ufunc, last>>

\* Lines 351-352: synthesize the signature and add it
TAdd(t) ==
  /\ threads[t].pc = "add"
  /\ LET a == add([sigs |-> sigs, overloads |-> overloads],
                  _get_signature(threads[t].args))
     IN /\ sigs' = a.sigs
        /\ overloads' = a.overloads
        /\ threads' = [threads EXCEPT ![t] =
             IF a.raised
             THEN [@ EXCEPT !.pc = "done", !.res = "CompilationError",
                            !.ncomp = 1]
             ELSE [@ EXCEPT !.pc = "build", !.ncomp = 1, !.nins = 1]]
  /\ UNCHANGED <<signature, is_dynamic, frozen, ufunc, last>>

\* Line 353: rebuild the aggregate from the registry as it is now
TBuild(t) ==
  /\ threads[t].pc = "build"
  /\ ufunc' = build_ufunc([sigs |-> sigs, overloads |-> overloads])
  /\ threads' = [threads EXCEPT ![t].pc = "delegate"]
  /\ UNCHANGED <<signature, is_dynamic, frozen, sigs, overloads, last>>

\* Line 354 (line 332 on the fast path): delegate to the aggregate
TDelegate(t) ==
  /\ threads[t].pc = "delegate"
  /\ threads' = [threads EXCEPT ![t] =
       [@ EXCEPT !.pc = "done",
                 !.res = ufunc_call(ufunc, threads[t].args, <<>>)]]
  /\ UNCHANGED <<signature, is_dynamic, frozen, sigs, overloads, ufunc, last>>

NextThreads ==
  \E t \in Threads :
    TBegin(t) \/ TCheck(t) \/ TAdd(t) \/ TBuild(t) \/ TDelegate(t)

SpecThreads == Init /\ [][NextThreads]_vars

(***************************************************************************)
(* Properties.                                                             *)
(***************************************************************************)
\* The state is the result of a direct call that took the dynamic path
DynCall == last.op = "call" /\ ~last.fast

\* The signature the resolver synthesizes for the observed element types
SynthSig == _get_signature([i \in 1..Len(last.ewise) |-> Scalar(last.ewise[i])])

\* C1 (as stated): a successful dynamic call with an element-wise tuple no
\* registry entry has compiles once and inserts once; a second call with the
\* identical tuple compiles and inserts nothing.
C1_Original ==
  DynCall /\ last.res = "ok" =>
    /\ ~last.seen => last.ncomp = 1 /\ last.nins = 1
    /\ last.again => last.ncomp = 0 /\ last.nins = 0

\* C1 (amended): a dynamic call that passes the arity check and whose
\* element-wise tuple no loop of the aggregate matches under the host's
\* casting rules requests one compilation and, when it succeeds, makes one
\* insertion and one rebuild; a call whose tuple an existing loop matches, in
\* particular a second call with the identical tuple, compiles and inserts
\* nothing and leaves registry and aggregate alone.
C1_CompileOncePerUnmatched ==
  DynCall /\ last.res # "ArityError" =>
    /\ ~last.matched =>
         /\ last.ncomp = 1
         /\ last.res = "ok" => last.nins = 1 /\ last.rebuilt
         /\ last.res # "ok" => last.nins = 0 /\ ~last.regchanged
    /\ last.matched =>
         last.ncomp = 0 /\ last.nins = 0 /\ ~last.regchanged
         /\ ~last.ufchanged
    /\ last.again => last.matched /\ last.ncomp = 0 /\ last.nins = 0

\* The second of two identical successful dynamic calls, after at least one
\* specialization was compiled
C1_Witness ==
  DynCall /\ last.again /\ last.res = "ok" /\ last.seen /\ Len(sigs) = 1

\* C2: on a frozen function a call or typing-path resolution whose
\* element-wise types no loop matches fails with TypeError, compiles nothing
\* and leaves the registry as it was.
C2_FrozenNeverCompiles ==
  /\ last.op \in {"call", "type_me"} /\ last.wasfrozen =>
       last.ncomp = 0 /\ last.nins = 0 /\ ~last.regchanged
  /\ /\ last.op \in {"call", "type_me"} /\ last.wasfrozen /\ ~last.matched
     /\ (last.op = "type_me" => last.resolved)
     => last.res = "TypeError"

\* A frozen typing-path resolution of an unmatched tuple was rejected
C2_Witness ==
  /\ last.op = "type_me" /\ last.wasfrozen /\ ~last.matched /\ last.resolved
  /\ last.res = "TypeError" /\ Len(last.ewise) = nin + 1

\* C3 (as stated): with two inputs and one output, a dynamic call passes the
\* arity check exactly when it has 2 or 3 arguments, the out keyword counted.
C3_Original ==
  DynCall /\ nin = 2 =>
    (last.res # "ArityError" <=> Len(last.ewise) \in {2, 3})

\* C3 (amended): with two inputs and one output, a dynamic call passes the
\* arity check exactly when it has 3 arguments, the out keyword counted; 2
\* arguments (implicit output) fail with ArityError like any other count.
C3_ArityExactlyThree ==
  DynCall /\ nin = 2 =>
    /\ last.npos + (IF last.kw THEN 1 ELSE 0) = Len(last.ewise)
    /\ last.res # "ArityError" <=> Len(last.ewise) = 3

\* A dynamic call of two inputs and out=... passed the check and ran
C3_Witness ==
  DynCall /\ nin = 2 /\ last.npos = 2 /\ last.kw /\ last.res = "ok"

\* C4: the registry never holds one call signature twice.
C4_NoDuplicateSignature ==
  \A i, j \in 1..Len(sigs) : i # j => sigs[i] # sigs[j]

\* C5: after a call, a typing-path resolution or a rebuild that added a
\* specialization, the aggregate is the one built from the whole registry.
C5_RebuiltAfterAdd ==
  last.op \in {"call", "type_me", "rebuild"} /\ last.nins > 0 =>
    ufunc = build_ufunc([sigs |-> sigs, overloads |-> overloads])

\* C6: the frozen flag is false at construction and never goes back to
\* false.
C6_FrozenOneWay ==
  /\ last.op = "init" => ~frozen
  /\ last.wasfrozen => frozen /\ ~last.frchanged

\* A frozen function was pickled and rebuilt
C6_Witness == last.op = "rebuild" /\ last.res = "ok" /\ last.wasfrozen /\ frozen

\* C7: disable_compile on an empty registry fails and leaves the function
\* open; a frozen function always has a specialization.
C7_FrozenHasSpecialization ==
  /\ frozen => Len(sigs) > 0
  /\ last.op = "disable_compile" /\ Len(sigs) = 0 =>
       last.res = "AssertionError" /\ ~frozen /\ ~last.frchanged

\* disable_compile was refused on an empty registry
C7_Witness ==
  last.op = "disable_compile" /\ last.res = "AssertionError" /\ sigs = <<>>

\* C8: when the JIT rejects the signature synthesized during a dynamic call
\* or a typing-path resolution, the call fails with CompilationError and
\* registry and aggregate are as before.
C8_FailedCompileStoresNothing ==
  /\ last.op \in {"call", "type_me"} /\ last.ncomp = 1
     /\ ~jit_compile(SynthSig)
     => /\ last.res = "CompilationError"
        /\ last.nins = 0 /\ ~last.regchanged /\ ~last.ufchanged
  /\ last.op \in {"call", "type_me"} /\ last.res = "CompilationError" =>
       last.ncomp = 1 /\ ~jit_compile(SynthSig)

\* A dynamic call asked for a signature the JIT rejects
C8_Witness ==
  DynCall /\ last.res = "CompilationError" /\ last.ncomp = 1 /\ Len(sigs) = 1

\* C9: a dynamic call with the wrong argument count fails with ArityError
\* before any resolution; registry, aggregate and frozen flag are untouched.
C9_ArityErrorNoMutation ==
  /\ DynCall /\ Len(last.ewise) # nin + 1 => last.res = "ArityError"
  /\ last.res = "ArityError" =>
       /\ DynCall
       /\ ~last.regchanged /\ ~last.ufchanged /\ ~last.frchanged
       /\ last.ncomp = 0 /\ last.nins = 0 /\ ~last.rebuilt /\ ~last.resolved

\* A dynamic call with one argument too many was refused
C9_Witness ==
  DynCall /\ last.res = "ArityError" /\ Len(last.ewise) = nin + 2

\* C10: a call on a frozen or static function goes straight to the aggregate
\* with the positional and keyword arguments as given: no arity check, no
\* resolution, no compilation, no rebuild, no state change.
C10_FastPathFrame ==
  last.op = "call" /\ (last.wasfrozen \/ ~is_dynamic) =>
    /\ last.fast
    /\ last.dpos = last.npos /\ last.dkw = last.kw
    /\ last.res # "ArityError" /\ ~last.resolved
    /\ last.ncomp = 0 /\ last.nins = 0 /\ ~last.rebuilt
    /\ ~last.regchanged /\ ~last.ufchanged /\ ~last.frchanged

\* A frozen dynamic function was called with the implicit-output shape and
\* the out keyword reached the aggregate as a keyword
C10_Witness ==
  /\ last.op = "call" /\ last.wasfrozen /\ is_dynamic /\ last.fast
  /\ last.kw /\ last.dkw /\ last.res = "ok"

\* C11: a call, a typing-path resolution, add, build_ufunc and
\* disable_compile leave every entry of the registry and of the dispatcher's
\* overloads in place: what was there before is a prefix of what is there
\* after, and the registry never shrinks.
C11_RegistryOnlyGrows ==
  last.op \in {"call", "type_me", "add", "build_ufunc", "disable_compile"} =>
    /\ last.grew
    /\ last.nins <= Len(sigs)
    /\ last.nins = 0 => ~last.regchanged

\* A specialization was added to a registry that already held another one
C11_Witness ==
  /\ last.op \in {"call", "type_me", "add"} /\ last.nins = 1 /\ last.grew
  /\ Len(sigs) = 2 /\ sigs[1] # sigs[2]

C13_RefindSucceeds ==
  last.op = "type_me" /\ ~last.wasfrozen /\ last.nins = 1 => last.res = "ok"

\* C14: the signature a call or a typing-path resolution synthesizes (and
\* stores, when the JIT accepts it) has return type none, one operand per
\* input and one for the output; an input whose dimension tuple is empty is
\* a scalar of its element type, any other input an array of that element
\* type whose rank is the tuple's length; the output is an array whose rank
\* is the output tuple's length, or 1 when that tuple is empty.
C14_SynthesizedShape ==
  last.op \in {"call", "type_me"} /\ last.ncomp = 1 =>
    LET fty == IF last.nins = 1 THEN sigs[Len(sigs)] ELSE SynthSig
        ins == parse_signature(signature).ins
        out == parse_signature(signature).outs[1]
        ret == fty.args[Len(fty.args)]
    IN /\ fty.return_type = "none"
       /\ Len(fty.args) = Len(ins) + 1
       /\ \A i \in 1..Len(ins) :
            /\ fty.args[i].dtype = last.ewise[i]
            /\ fty.args[i].ndim = Len(ins[i])
            /\ ins[i] = <<>> <=> ~IsArray(fty.args[i])
       /\ IsArray(ret)
       /\ ret.ndim = (IF out = <<>> THEN 1 ELSE Len(out))

\* A dynamic call on the all-scalar dimension signature stored a signature
\* with a scalar input and a rank-1 output
C14_Witness ==
  /\ DynCall /\ last.nins = 1 /\ signature = "()->()"
  /\ ~IsArray(sigs[Len(sigs)].args[1]) /\ sigs[Len(sigs)].args[2].ndim = 1

\* C15: when two threads have each completed a successful first call of a
\* dynamic, unfrozen function with the same arguments, together they
\* requested one compilation and made one insertion, and the registry holds
\* one entry.
C15_ConcurrentFirstCallCompilesOnce ==
  /\ is_dynamic /\ ~frozen
  /\ \A t \in Threads : threads[t].pc = "done" /\ threads[t].res = "ok"
  /\ threads[1].args = threads[2].args
  => /\ threads[1].ncomp + threads[2].ncomp = 1
     /\ threads[1].nins + threads[2].nins = 1
     /\ Len(sigs) = 1

\* C16: the lookup of a typing-path resolution on a frozen function changes
\* neither registry nor aggregate; when no loop of the aggregate matches the
\* query it finds nothing; when a loop matches, it returns the first entry
\* of the dispatcher's overloads whose element-wise types equal the loop's
\* operand types cut to the query's length, and nothing if there is none.
C16_FrozenLookup ==
  last.op = "type_me" /\ last.wasfrozen /\ last.resolved =>
    LET loop == ufunc_find_matching_loop(ufunc, last.ewise)
        widened == SubSeq(ufunc[loop], 1, Len(last.ewise))
        Eq(i) == _get_ewise_dtypes(overloads[i].args) = widened
    IN /\ ~last.regchanged /\ ~last.ufchanged
       /\ last.found \in 0..Len(overloads)
       /\ loop = 0 => last.found = 0
       /\ loop # 0 /\ last.found = 0 => \A i \in 1..Len(overloads) : ~Eq(i)
       /\ last.found # 0 =>
            loop # 0 /\ Eq(last.found) /\ \A i \in 1..(last.found - 1) : ~Eq(i)
       /\ last.res = (IF last.found = 0 THEN "TypeError" ELSE "ok")

\* A frozen lookup found an entry whose element types differ from the query:
\* the query was widened to the matched loop, and the entry is not the first
C16_Witness ==
  /\ last.op = "type_me" /\ last.wasfrozen /\ last.found = 2
  /\ _get_ewise_dtypes(overloads[last.found].args) # last.ewise

\* C17: on a dynamic, unfrozen function a call with the output as the out
\* keyword has the same outcome as the call with it as the last positional
\* argument: same result or error, same compilation and insertion, same
\* registry and aggregate; the keyword is counted by the arity check and
\* reaches the aggregate as the last positional argument, not as a keyword.
C17_OutKeywordAsPositional ==
  /\ is_dynamic /\ ~frozen =>
       \A T \in CallTuples :
         Len(T) >= 1 =>
           LET all == ArgsFor(T)
           IN __call__(SubSeq(all, 1, Len(T) - 1), <<all[Len(T)]>>)
                = __call__(all, <<>>)
  /\ DynCall /\ last.kw =>
       /\ last.npos + 1 = Len(last.ewise)
       /\ ~last.dkw
       /\ last.res # "ArityError" <=> Len(last.ewise) = nin + 1
       /\ last.res = "ok" => last.dpos = last.npos + 1

\* A dynamic call with the out keyword compiled a specialization and ran
C17_Witness ==
  /\ DynCall /\ last.kw /\ last.res = "ok" /\ last.nins = 1
  /\ last.dpos = nin + 1 /\ ~last.dkw

\* C18 (as stated): in every state of a dynamic, unfrozen function and for
\* every element-wise tuple with an explicit output, the direct call requests
\* a compilation exactly when the typing path does.
C18_Original ==
  is_dynamic /\ ~frozen =>
    \A T \in TuplesOfLen(nin + 1) :
      __call__(ArgsFor(T), <<>>).ncomp = 1
        <=> _type_me(ArgsFor(T), FALSE).ncomp = 1

\* C18 (amended): the direct call compiles exactly when no loop of the
\* aggregate as last built accepts the tuple under the host's casting rules;
\* the typing path compiles exactly when no dispatcher overload has exactly
\* the tuple.  Neither compiles when the aggregate has a loop equal to the
\* tuple, and both compile when the loop of no overload accepts the tuple
\* under the casting rules.
C18_PathsAgreeOnExactOrNoMatch ==
  is_dynamic /\ ~frozen =>
    \A T \in TuplesOfLen(nin + 1) :
      LET c == __call__(ArgsFor(T), <<>>).ncomp
          t == _type_me(ArgsFor(T), FALSE).ncomp
          loops == [i \in 1..Len(overloads) |-> LoopOf(overloads[i])]
      IN /\ c = 1 <=> ufunc_find_matching_loop(ufunc, T) = 0
         /\ t = 1 <=> T \notin Range(loops)
         /\ c \in {0, 1} /\ t \in {0, 1}
         /\ T \in Range(ufunc) => c = 0 /\ t = 0
         /\ ufunc_find_matching_loop(loops, T) = 0 => c = 1 /\ t = 1

\* After a dynamic call compiled a specialization there is a tuple both
\* paths reuse, one both compile for, and one only the typing path compiles
\* for
C18_Witness ==
  /\ DynCall /\ last.nins = 1 /\ ~frozen /\ last.ewise \in Range(ufunc)
  /\ _type_me(ArgsFor(last.ewise), FALSE).ncomp = 0
  /\ \E T \in TuplesOfLen(nin + 1) :
       __call__(ArgsFor(T), <<>>).ncomp = 1 /\ _type_me(ArgsFor(T), FALSE).ncomp = 1
  /\ \E T \in TuplesOfLen(nin + 1) :
       __call__(ArgsFor(T), <<>>).ncomp = 0 /\ _type_me(ArgsFor(T), FALSE).ncomp = 1

\* C19: on the typing path of an unfrozen function, a resolution that
\* directly follows a resolution of the same element-wise tuple which
\* inserted its signature succeeds without compiling or inserting; and every
\* successful resolution returns the signature with return type none and the
\* call site's argument types.
C19_TypingPathIdempotent ==
  /\ /\ last.op = "type_me" /\ last.resolved /\ ~last.wasfrozen
     /\ last.prevadded
     => last.res = "ok" /\ last.ncomp = 0 /\ last.nins = 0
  /\ last.op = "type_me" /\ last.res = "ok" =>
       last.ret = [return_type |-> "none", args |-> ArgsFor(last.ewise)]

====
